---- MODULE Spec2Model ----
(***************************************************************************)
(* A state-machine model of bevy_lazy_prefabs: the prefab parser           *)
(* (src/src/parse.rs), the registry and its prefab cache                   *)
(* (src/src/registry.rs), and the two entity assemblers: the one of        *)
(* src/src/commands.rs (spawn_prefab / load_prefab / process_command) and  *)
(* the one of src/src/bevy_commands.rs + src/src/build_commands.rs         *)
(* (insert_prefab / LoadPrefab::run).                                      *)
(***************************************************************************)
EXTENDS Integers, Sequences, FiniteSets, TLC

VARIABLES
    type_info_map,  \* PrefabRegistry.type_info_map: the set of registered type names
    processors,     \* PrefabRegistry.processors: the set of registered command keys
    prefab_map,     \* PrefabRegistry.prefab_map: path -> Arc<Prefab>
    next_arc,       \* the next Arc allocation (the identity Arc::new gives a document)
    fs_reads,       \* path -> fs::read_to_string calls since the path was last removed
    parses,         \* path -> parse_prefab_string calls since the path was last removed
    world,          \* World: entity -> (type name -> component instance)
    queue,          \* Commands: the deferred command queue, applied first-in first-out
    stack,          \* the frames of load_prefab / LoadPrefab::run being executed
    applying,       \* the stage's command queue is being applied
    log,            \* entity -> the build steps begun and ended on it, in order
    nested_loads,   \* path -> number of calls of load the assemblers made for it
    panicked,       \* "none", or the panic that ended the program
    last,           \* the last registry / spawn call and what it returned
    parsed          \* the last direct call of a parse.rs function and its result

vars == <<type_info_map, processors, prefab_map, next_arc, fs_reads, parses,
          world, queue, stack, applying, log, nested_loads, panicked, last, parsed>>

(***************************************************************************)
(* Bounds of the model.                                                    *)
(***************************************************************************)
\* Arc<Prefab> allocations (successful parses) in one run.
MaxArcs == 3
\* Entities spawned in one run.
MaxEntities == 2
\* Reads of one path's file between two removals of the path.
MaxReads == 2

\* Calls of load_prefab / LoadPrefab::run / load_prefab_aahh nested in one
\* another (the depth the recursion is followed to).
MaxDepth == 3

(***************************************************************************)
(* The parse tree pest hands to parse.rs.  Every node has the same shape:  *)
(* rule, name (type name, field name, command key or path), value (the     *)
(* literal of a field) and children.                                       *)
(***************************************************************************)
Node(rule, name, value, children) ==
    [rule |-> rule, name |-> name, value |-> value, children |-> children]

Field(name, value) == Node("field", name, value, <<>>)

Comp(type_name, children) == Node("component", type_name, 0, children)

Proc(key, fields) == Node("processor", key, 0, fields)

Load(path) == Node("load", path, 0, <<>>)

\* A value pair: its rule and the text pest matched, as the code points of
\* its characters (a number for Rule::int and Rule::float, whose text is the
\* number's digits).
Literal(rule, text) == Node(rule, "", text, <<>>)

\* Color::NAME: the inner pair is NAME.
ColorLiteral(name) == Node("color", name, 0, <<>>)

\* Vec3 { fields }.
Vec3Literal(fields) == Node("vec3", "", 0, fields)

\* A field whose value is a value pair other than an int literal.
FieldOf(name, value) == Node("field", name, 0, <<value>>)

(***************************************************************************)
(* The component types of the examples: unit structs and one struct with   *)
(* two i32 fields, all deriving Default (every field 0).                   *)
(***************************************************************************)
TypeNames == {"A", "B", "C", "T", "U", "V"}

\* Vec3::default() and bevy's Transform::default(), a struct whose field
\* translation is a Vec3.
Vec3_default == [x |-> 0, y |-> 0, z |-> 0]

StructFields(type_name) ==
    CASE type_name = "T" -> {"x", "y"}
      [] type_name = "Transform" -> {"translation", "scale"}
      [] OTHER -> {}

DefaultInstance(type_name) ==
    [f \in StructFields(type_name) |-> IF f = "translation" THEN Vec3_default ELSE 0]

\* The key under which plugin.rs registers the nested-prefab build command.
LoadPrefabKey == "LoadPrefab"

CommandKeys == {LoadPrefabKey, "P", "Q"}

\* The Rust types an application registers, by full path: the component
\* types above, the tuple struct V(i32, i32), and two types of another module
\* whose short names are those of U and T (other::T a tuple struct).
TypeIds == TypeNames \cup {"other::U", "other::T"}

\* TypeRegistration::short_name: the path without its modules.
short_name(type_id) ==
    CASE type_id = "other::U" -> "U"
      [] type_id = "other::T" -> "T"
      [] OTHER -> type_id

\* ReflectType of T::default().reflect_ref().
reflect_type(type_id) == IF type_id \in {"V", "other::T"} THEN "TupleStruct" ELSE "Struct"

\* registry.rs TypeInfo: the short name, the shape and the registration.
TypeInfo(type_id) ==
    [type_name |-> short_name(type_id), reflect_type |-> reflect_type(type_id),
     registration |-> type_id]

\* An Arc<dyn PrefabProcessor>: the key it answers and the allocation.
Processor(key, arc) == [key |-> key, arc |-> arc]

Processors == {Processor(LoadPrefabKey, "L1"), Processor("Q", "Q1"), Processor("Q", "Q2"),
               Processor("P", "P1"), Processor("P", "P2")}

\* An insert that keeps the value already under the key
\* (entry(key).or_insert(value)).
HashMap_or_insert(map, key, value) ==
    [k \in DOMAIN map \cup {key} |-> IF k \in DOMAIN map THEN map[k] ELSE value]

\* HashMap::insert: the value under the key, replacing the one there.
HashMap_insert(map, key, value) ==
    [k \in DOMAIN map \cup {key} |-> IF k = key THEN value ELSE map[k]]

\* The registry after the registrations of `type_ids` / `procs`, no two under
\* one name.
TypeInfos(type_ids) == [n \in {short_name(t) : t \in type_ids} |->
                          TypeInfo(CHOOSE t \in type_ids : short_name(t) = n)]

ProcessorMap(procs) == [k \in {q.key : q \in procs} |-> CHOOSE q \in procs : q.key = k]

(***************************************************************************)
(* The files under assets/prefabs.  A path without a file is NoFile, a     *)
(* file pest rejects is BadSyntax.                                         *)
(***************************************************************************)
NoFile == <<Node("nofile", "", 0, <<>>)>>

BadSyntax == <<Node("error", "", 0, <<>>)>>

Paths == {"leaf", "mid", "top", "ordered", "lazy", "cmd", "bad", "nest", "missing",
          "loop", "ping", "pong", "noname", "intname"}

Files(path) ==
    CASE path = "leaf"    -> <<Comp("C", <<>>)>>
      [] path = "mid"     -> <<Comp("A", <<>>), Load("leaf"), Comp("B", <<>>)>>
      [] path = "top"     -> <<Comp("T", <<Field("y", 7)>>), Load("mid")>>
      [] path = "ordered" -> <<Comp("T", <<Field("x", 5), Field("y", 5)>>),
                               Comp("T", <<Field("x", 9)>>)>>
      [] path = "lazy"    -> <<Comp("A", <<>>), Load("missing"), Comp("B", <<>>)>>
      [] path = "cmd"     -> <<Proc("Q", <<Field("k", 1)>>), Comp("A", <<>>),
                               Proc("P", <<>>), Comp("B", <<>>)>>
      [] path = "bad"     -> <<Comp("A", <<>>), Comp("U", <<>>)>>
      [] path = "nest"    -> <<Comp("A", <<>>), Comp("T", <<Comp("U", <<>>)>>)>>
      [] path = "loop"    -> <<Comp("A", <<>>), Load("loop")>>
      [] path = "ping"    -> <<Comp("B", <<>>), Load("pong")>>
      [] path = "pong"    -> <<Comp("C", <<>>), Load("ping")>>
      [] path = "noname"  -> <<Comp("A", <<>>), Proc(LoadPrefabKey, <<>>), Comp("B", <<>>)>>
      [] path = "intname" -> <<Comp("A", <<>>), Proc(LoadPrefabKey, <<Field("name", 5)>>),
                               Comp("B", <<>>)>>
      [] OTHER            -> NoFile

(***************************************************************************)
(* Results: Ok(val), Err(err) and a panic (an unwrap of an Err or None).   *)
(***************************************************************************)
Ok(val) == [tag |-> "Ok", val |-> val, err |-> "", arg |-> ""]

Err(err, arg) == [tag |-> "Err", val |-> <<>>, err |-> err, arg |-> arg]

Panic(err, arg) == [tag |-> "Panic", val |-> <<>>, err |-> err, arg |-> arg]

(***************************************************************************)
(* parse.rs                                                                *)
(***************************************************************************)
\* A parsed field: ReflectField { name, value }.  The value of a nested
\* component is its root (a list of fields), of a literal its number.
ReflectField(name, value, fields) == [name |-> name, value |-> value, fields |-> fields]

\* The colour constants of bevy that parse_value knows, as rgb, and
\* Color::default().
ColorTable ==
    [name \in {"RED", "BLUE", "GREEN", "YELLOW", "PINK"} |->
        CASE name = "RED" -> <<100, 0, 0>>
          [] name = "BLUE" -> <<0, 0, 100>>
          [] name = "GREEN" -> <<0, 100, 0>>
          [] name = "YELLOW" -> <<100, 100, 0>>
          [] name = "PINK" -> <<100, 8, 58>>]

Color_default == <<100, 100, 100>>

\* A cast that keeps the whole code point.
as_u32(ch) == ch

\* `ch as u8`: the code point truncated to eight bits.
as_u8(ch) == ch % 256

\* Rule::char: value_string.chars().nth(1), as u8.
parse_char(text) ==
    IF Len(text) < 2 THEN Err("ValueParseError", "char") ELSE Ok(as_u8(text[2]))

\* A Rule::string that trims quotes and blanks from the text.
parse_string_trimmed(text) == Ok(SelectSeq(text, LAMBDA c : c \notin {34, 32}))

\* Rule::string: &str[1..str.len().saturating_sub(1)]; a slice that starts
\* after its end panics.
parse_string(text) ==
    IF Len(text) < 2 THEN Panic("slice index starts at 1 but ends at 0", "")
    ELSE Ok(SubSeq(text, 2, Len(text) - 1))

\* A Rule::color that falls back to Color::default() for a name it does not
\* know.
parse_color_defaulting(name) ==
    IF name \in DOMAIN ColorTable THEN Ok(ColorTable[name]) ELSE Ok(Color_default)

\* Rule::color: the constant of the name, UnhandledValueRule for any other.
parse_color(name) ==
    IF name \in DOMAIN ColorTable THEN Ok(ColorTable[name])
    ELSE Err("UnhandledValueRule", name)

\* The value pair of a field: field.into_inner(), after the name.
value_pair(field) ==
    IF field.children = <<>> THEN Literal("int", field.value) ELSE field.children[1]

\* A Rule::vec3 that takes the fields by their position, as Vec3(a, b, c)
\* would: the first for x, the second for y, the third for z.
Vec3Loop_positional(fields, v) ==
    Ok([x |-> IF Len(fields) >= 1 THEN value_pair(fields[1]).value ELSE v.x,
        y |-> IF Len(fields) >= 2 THEN value_pair(fields[2]).value ELSE v.y,
        z |-> IF Len(fields) >= 3 THEN value_pair(fields[3]).value ELSE v.z])

\* The loop of Rule::vec3 over the fields: parse_field(field).unwrap(),
\* val.cast_ref::<f32>() (a panic for a value that is not an f32), and the
\* assignment to x, y or z; any other name is passed over.  The value pairs
\* of the fields are literals, which parse without parse_field's recursion.
RECURSIVE Vec3Loop(_, _)
Vec3Loop(fields, v) ==
    IF fields = <<>> THEN Ok(v)
    ELSE LET pair == value_pair(Head(fields)) IN
         IF pair.rule # "float"
         THEN Panic("cast_ref", pair.rule)
         ELSE Vec3Loop(Tail(fields),
                       IF Head(fields).name \in {"x", "y", "z"}
                       THEN [v EXCEPT ![Head(fields).name] = pair.value]
                       ELSE v)

\* parse_value: by the rule of the pair.
parse_value(pair) ==
    CASE pair.rule \in {"int", "float"} -> Ok(pair.value)
      [] pair.rule = "char" -> parse_char(pair.value)
      [] pair.rule = "string" -> parse_string(pair.value)
      [] pair.rule = "vec3" -> Vec3Loop(pair.children, Vec3_default)
      [] pair.rule = "color" -> parse_color(pair.name)
      [] OTHER -> Err("UnhandledValueRule", pair.rule)

\* `parse_value(value)?` and the ReflectField of the name and the value.
field_of(name, value) ==
    IF value.tag # "Ok" THEN value ELSE Ok(ReflectField(name, value.val, <<>>))

\* parse_field: the field's name and its parsed value.
parse_field(field) == field_of(field.name, parse_value(value_pair(field)))

\* DynamicStruct::insert_boxed: replace the value of a name already there,
\* else push.
insert_boxed(root, field) ==
    IF \E i \in 1..Len(root) : root[i].name = field.name
    THEN [i \in 1..Len(root) |-> IF root[i].name = field.name THEN field ELSE root[i]]
    ELSE Append(root, field)

RECURSIVE InsertAll(_, _)
InsertAll(root, fields) ==
    IF fields = <<>> THEN root
    ELSE InsertAll(insert_boxed(root, Head(fields)), Tail(fields))

\* A build_root that inserts under the field's name whatever the shape.
build_root_by_name(type_info, fields) == InsertAll(<<>>, fields)

\* build_root: for ReflectType::Struct a DynamicStruct holding every field
\* under its name; for a TupleStruct or Tuple the values pushed in the order
\* of the fields, without their names.
build_root(type_info, fields) ==
    IF type_info.reflect_type = "Struct"
    THEN InsertAll(<<>>, fields)
    ELSE [i \in 1..Len(fields) |-> ReflectField("", fields[i].value, fields[i].fields)]

\* A build step of a document.  kind is AddComponent, Processor or
\* LoadPrefab; name is the type name, the command key or the path.
Step(kind, name, root, has_props) ==
    [kind |-> kind, name |-> name, root |-> root, has_props |-> has_props]

RECURSIVE parse_component(_, _)
RECURSIVE ParseChildren(_, _, _)
RECURSIVE push_nested(_, _, _, _)
RECURSIVE push_field(_, _, _, _)

\* The loop of parse_component over the children of a component: a nested
\* component is parsed and unwrapped, a field is parsed with `?`.
ParseChildren(children, registry, fields) ==
    IF children = <<>> THEN Ok(fields)
    ELSE LET child == Head(children) IN
         IF child.rule = "component"
         THEN push_nested(parse_component(child, registry), Tail(children), registry, fields)
         ELSE IF child.rule = "field"
         THEN push_field(parse_field(child), Tail(children), registry, fields)
         ELSE Err("UnhandledPrefabFieldRule", child.rule)

\* parse_component(field, registry).unwrap() of a nested component, pushed
\* on the fields, and the rest of the loop.
push_nested(nested, children, registry, fields) ==
    IF nested.tag # "Ok"
    THEN Panic(nested.err, nested.arg)
    ELSE ParseChildren(children, registry,
             Append(fields, ReflectField(nested.val.name, 0, nested.val.root)))

\* parse_field(field)? pushed on the fields, and the rest of the loop.
push_field(field, children, registry, fields) ==
    IF field.tag # "Ok" THEN field
    ELSE ParseChildren(children, registry, Append(fields, field.val))

\* The end of parse_component: the lookup of the type name and the root
\* built from the fields.
component_of(type_name, registry, fields) ==
    IF fields.tag # "Ok" THEN fields
    ELSE IF type_name \notin DOMAIN registry
    THEN Err("UnregisteredPrefabComponent", type_name)
    ELSE Ok(Step("AddComponent", type_name, build_root(registry[type_name], fields.val), TRUE))

\* parse_component: the children first, then the lookup of the type name.
parse_component(pair, registry) ==
    component_of(pair.name, registry, ParseChildren(pair.children, registry, <<>>))

RECURSIVE ParseProcessorFields(_, _)
RECURSIVE insert_property(_, _, _)
ParseProcessorFields(fields, properties) ==
    IF fields = <<>> THEN Ok(properties)
    ELSE insert_property(parse_field(Head(fields)), Tail(fields), properties)

\* parse_field(field)? inserted in the properties, and the rest of the loop.
insert_property(field, fields, properties) ==
    IF field.tag # "Ok" THEN field
    ELSE ParseProcessorFields(fields, insert_boxed(properties, field.val))

\* A parse_processor that looks the key up in the registry and fails when no
\* command is registered under it.
parse_processor_checked(pair) ==
    LET properties == ParseProcessorFields(pair.children, <<>>) IN
    IF pair.name \notin DOMAIN processors THEN Err("UnregisteredCommand", pair.name)
    ELSE IF properties.tag # "Ok" THEN properties
    ELSE Ok(Step("Processor", pair.name, properties.val, pair.children # <<>>))

\* A parse_processor whose properties are always Some: an empty DynamicStruct
\* for a call without fields.
parse_processor_some(pair) ==
    LET properties == ParseProcessorFields(pair.children, <<>>) IN
    IF properties.tag # "Ok" THEN properties
    ELSE Ok(Step("Processor", pair.name, properties.val, TRUE))

\* parse_processor: the key and the optional properties.  It takes no
\* registry: the key is not looked up.
parse_processor(pair) ==
    LET properties == ParseProcessorFields(pair.children, <<>>) IN
    IF properties.tag # "Ok" THEN properties
    ELSE Ok(Step("Processor", pair.name, properties.val, pair.children # <<>>))

\* What parse_prefab hands to Prefab::new: the components and the processors,
\* each in its own vector.
PrefabParts(components, procs) == [components |-> components, processors |-> procs]

RECURSIVE ParsePrefabLoop(_, _, _, _)
ParsePrefabLoop(input, registry, components, procs) ==
    IF input = <<>> THEN Ok(PrefabParts(components, procs))
    ELSE LET field == Head(input) IN
         IF field.rule = "component"
         THEN LET comp == parse_component(field, registry) IN
              IF comp.tag # "Ok" THEN comp
              ELSE ParsePrefabLoop(Tail(input), registry, Append(components, comp.val), procs)
         ELSE IF field.rule = "processor"
         THEN LET processor == parse_processor(field) IN
              IF processor.tag # "Ok" THEN processor
              ELSE ParsePrefabLoop(Tail(input), registry, components, Append(procs, processor.val))
         ELSE Err("UnhandledPrefabFieldRule", field.rule)

\* parse_prefab of parse.rs.
parse_prefab(input, registry) ==
    IF input = BadSyntax THEN Err("PestParseError", "")
    ELSE ParsePrefabLoop(input, registry, <<>>, <<>>)

(***************************************************************************)
(* prefab.rs / registry.rs                                                 *)
(***************************************************************************)
\* parse_prefab_string, the parser try_load calls: every step of the source,
\* whatever its kind, is pushed on one list in source order; a load!(path)
\* step stores the path alone.
RECURSIVE ParseStringLoop(_, _, _)
RECURSIVE push_step(_, _, _, _)
ParseStringLoop(input, registry, steps) ==
    IF input = <<>> THEN Ok(steps)
    ELSE LET field == Head(input) IN
         IF field.rule = "component"
         THEN push_step(parse_component(field, registry), Tail(input), registry, steps)
         ELSE IF field.rule = "processor"
         THEN push_step(parse_processor(field), Tail(input), registry, steps)
         ELSE IF field.rule = "load"
         THEN ParseStringLoop(Tail(input), registry,
                  Append(steps, Step("LoadPrefab", field.name, <<>>, TRUE)))
         ELSE Err("UnhandledPrefabFieldRule", field.rule)

\* The parsed step pushed on the list, or its error returned.
push_step(step, input, registry, steps) ==
    IF step.tag # "Ok" THEN step
    ELSE ParseStringLoop(input, registry, Append(steps, step.val))

parse_prefab_string(input, registry) ==
    IF input = BadSyntax THEN Err("PestParseError", "")
    ELSE ParseStringLoop(input, registry, <<>>)

\* An Arc<Prefab>: the allocation's identity and the document's steps.
\* NoArc stands for no entry.
Arc(id, steps) == [id |-> id, steps |-> steps]

NoArc == Arc(0, <<>>)

contains_key(map, prefab_name) == map[prefab_name].id # 0

\* What a call of try_load does: its result, the cache and the allocation
\* counter after it, and whether it read the file and ran the parser.
Loaded(res, map, arcs, read, parse) ==
    [res |-> res, prefab_map |-> map, next_arc |-> arcs, read |-> read, parse |-> parse]

\* try_load without the early return of a cached document: the file is read
\* and parsed again, and entry().or_insert keeps the document already there.
try_load_uncached(map, arcs, prefab_name) ==
    IF Files(prefab_name) = NoFile
    THEN Loaded(Err("PrefabFileReadError", prefab_name), map, arcs, TRUE, FALSE)
    ELSE LET prefab == parse_prefab_string(Files(prefab_name), type_info_map) IN
         IF prefab.tag # "Ok"
         THEN Loaded(prefab, map, arcs, TRUE, TRUE)
         ELSE IF contains_key(map, prefab_name)
         THEN Loaded(Ok(map[prefab_name]), map, arcs, TRUE, TRUE)
         ELSE LET entry == Arc(arcs, prefab.val) IN
              Loaded(Ok(entry), [map EXCEPT ![prefab_name] = entry], arcs + 1, TRUE, TRUE)

\* A try_load whose test of the cache and whose insert are not one critical
\* section: the caller missed the cache before another caller's insert, and
\* stores the document it parsed over the one stored meanwhile.
try_load_unguarded(map, arcs, prefab_name) ==
    IF Files(prefab_name) = NoFile
    THEN Loaded(Err("PrefabFileReadError", prefab_name), map, arcs, TRUE, FALSE)
    ELSE LET prefab == parse_prefab_string(Files(prefab_name), type_info_map) IN
         IF prefab.tag # "Ok"
         THEN Loaded(prefab, map, arcs, TRUE, TRUE)
         ELSE LET entry == Arc(arcs, prefab.val) IN
              Loaded(Ok(entry), [map EXCEPT ![prefab_name] = entry], arcs + 1, TRUE, TRUE)

\* A try_load that remembers a failed parse: an empty document is stored
\* under the name and the error returned.
try_load_negative(map, arcs, prefab_name) ==
    IF contains_key(map, prefab_name)
    THEN Loaded(Ok(map[prefab_name]), map, arcs, FALSE, FALSE)
    ELSE IF Files(prefab_name) = NoFile
    THEN Loaded(Err("PrefabFileReadError", prefab_name), map, arcs, TRUE, FALSE)
    ELSE LET prefab == parse_prefab_string(Files(prefab_name), type_info_map) IN
         IF prefab.tag # "Ok"
         THEN Loaded(prefab, [map EXCEPT ![prefab_name] = Arc(arcs, <<>>)], arcs + 1, TRUE, TRUE)
         ELSE LET entry == Arc(arcs, prefab.val) IN
              Loaded(Ok(entry), [map EXCEPT ![prefab_name] = entry], arcs + 1, TRUE, TRUE)

\* A try_load whose cache holds one document: a miss stores the new
\* document in place of the others.
try_load_evicting(map, arcs, prefab_name) ==
    IF contains_key(map, prefab_name)
    THEN Loaded(Ok(map[prefab_name]), map, arcs, FALSE, FALSE)
    ELSE IF Files(prefab_name) = NoFile
    THEN Loaded(Err("PrefabFileReadError", prefab_name), map, arcs, TRUE, FALSE)
    ELSE LET prefab == parse_prefab_string(Files(prefab_name), type_info_map) IN
         IF prefab.tag # "Ok"
         THEN Loaded(prefab, map, arcs, TRUE, TRUE)
         ELSE LET entry == Arc(arcs, prefab.val) IN
              Loaded(Ok(entry), [q \in DOMAIN map |-> IF q = prefab_name THEN entry ELSE NoArc],
                     arcs + 1, TRUE, TRUE)

\* The match on the parser's result in try_load: an error is returned, a
\* document is stored under the name in a new Arc.
or_insert(map, arcs, prefab_name, prefab) ==
    IF prefab.tag # "Ok"
    THEN Loaded(prefab, map, arcs, TRUE, TRUE)
    ELSE LET entry == Arc(arcs, prefab.val) IN
         Loaded(Ok(entry), [map EXCEPT ![prefab_name] = entry], arcs + 1, TRUE, TRUE)

\* PrefabRegistry::try_load on the cache `map`.
try_load(map, arcs, prefab_name) ==
    IF contains_key(map, prefab_name)
    THEN Loaded(Ok(map[prefab_name]), map, arcs, FALSE, FALSE)
    ELSE IF Files(prefab_name) = NoFile
    THEN Loaded(Err("PrefabFileReadError", prefab_name), map, arcs, TRUE, FALSE)
    ELSE or_insert(map, arcs, prefab_name,
                   parse_prefab_string(Files(prefab_name), type_info_map))

\* A remove that clears the whole cache (prefab_map.clear()).
remove_all(map, prefab_name) == [p \in DOMAIN map |-> NoArc]

\* PrefabRegistry::remove on the cache `map`.
remove(map, prefab_name) == [map EXCEPT ![prefab_name] = NoArc]

\* The counters of file reads and parser runs after a call of try_load.
Counted(counter, prefab_name, did) ==
    IF did THEN [counter EXCEPT ![prefab_name] = @ + 1] ELSE counter

\* The record of a call and of what it returned.
Call(op, path, res, read) ==
    [op |-> op, path |-> path, tag |-> res.tag, err |-> res.err,
     arc |-> IF res.tag = "Ok" THEN res.val.id ELSE 0, read |-> read]

\* A program that goes on after a panic.
RunningAfterPanic == TRUE

\* Nothing runs once a panic has ended the program; no system runs while the
\* stage's command queue is being applied.
Running == panicked = "none"

Idle == Running /\ stack = <<>> /\ ~applying

\* PrefabRegistry::load: try_load with the document dropped from the result.
load(prefab_name) ==
    /\ Idle
    /\ LET l == try_load(prefab_map, next_arc, prefab_name) IN
       /\ l.next_arc <= MaxArcs + 1
       /\ l.read => fs_reads[prefab_name] < MaxReads
       /\ prefab_map' = l.prefab_map
       /\ next_arc' = l.next_arc
       /\ fs_reads' = Counted(fs_reads, prefab_name, l.read)
       /\ parses' = Counted(parses, prefab_name, l.parse)
       /\ panicked' = IF l.res.tag = "Panic" THEN l.res.err ELSE "none"
       /\ last' = Call("load", prefab_name, l.res, l.read)
    /\ UNCHANGED <<type_info_map, processors, world, queue, stack, applying, log, nested_loads, parsed>>

\* PrefabRegistry::remove.
Remove(prefab_name) ==
    /\ Idle
    /\ prefab_map' = remove(prefab_map, prefab_name)
    /\ fs_reads' = [fs_reads EXCEPT ![prefab_name] = 0]
    /\ parses' = [parses EXCEPT ![prefab_name] = 0]
    /\ UNCHANGED <<type_info_map, processors, next_arc, world,
                   queue, stack, applying, log, nested_loads, panicked, last, parsed>>

\* PrefabRegistry::register_type::<T>().
register_type(type_id) ==
    /\ Idle
    /\ type_info_map' = HashMap_insert(type_info_map, TypeInfo(type_id).type_name,
                                       TypeInfo(type_id))
    /\ last' = Call("register_type", type_id, Ok(NoArc), FALSE)
    /\ UNCHANGED <<processors, prefab_map, next_arc, fs_reads, parses, world,
                   queue, stack, applying, log, nested_loads, panicked, parsed>>

\* PrefabRegistry::add_processor.
add_processor(processor) ==
    /\ Idle
    /\ processors' = HashMap_insert(processors, processor.key, processor)
    /\ last' = Call("add_processor", processor.arc, Ok(NoArc), FALSE)
    /\ UNCHANGED <<type_info_map, prefab_map, next_arc, fs_reads, parses, world,
                   queue, stack, applying, log, nested_loads, panicked, parsed>>

\* The registrations of the startup phase: the plugin's, and possibly the
\* application's own (the type U, the command P).
Init ==
    /\ type_info_map \in {TypeInfos({"A", "B", "C", "T", "V"}),
                          TypeInfos({"A", "B", "C", "T", "V", "U"})}
    /\ processors \in {ProcessorMap({Processor(LoadPrefabKey, "L1"), Processor("Q", "Q1")}),
                       ProcessorMap({Processor(LoadPrefabKey, "L1"), Processor("Q", "Q1"),
                                     Processor("P", "P1")})}
    /\ prefab_map = [p \in Paths |-> NoArc]
    /\ next_arc = 1
    /\ fs_reads = [p \in Paths |-> 0]
    /\ parses = [p \in Paths |-> 0]
    /\ world = <<>>
    /\ queue = <<>>
    /\ stack = <<>>
    /\ applying = FALSE
    /\ log = <<>>
    /\ nested_loads = [p \in Paths |-> 0]
    /\ panicked = "none"
    /\ last = Call("start", "", Ok(NoArc), FALSE)
    /\ parsed = [input |-> <<>>, res |-> Ok(PrefabParts(<<>>, <<>>))]

(***************************************************************************)
(* The assemblers: commands.rs (pipeline 1) and bevy_commands.rs with      *)
(* build_commands.rs (pipeline 2).                                         *)
(***************************************************************************)
\* Reflect::apply of a DynamicStruct onto a struct instance: every field of
\* the root that the instance has is overwritten, the others are left alone.
RECURSIVE apply(_, _)
apply(instance, root) ==
    IF root = <<>> THEN instance
    ELSE LET field == Head(root) IN
         apply(IF field.name \in DOMAIN instance
               THEN [instance EXCEPT ![field.name] = field.value]
               ELSE instance,
               Tail(root))

\* An entity without components.
NoComponents == [t \in {} |-> <<>>]

contains_type_id(entity_components, type_name) == type_name \in DOMAIN entity_components

\* An insert through a component instance shared by every entity: the write
\* shows on all of them.
insert_shared(w, entity, type_name, instance) ==
    [e \in DOMAIN w |->
        [t \in DOMAIN w[e] \cup {type_name} |->
            IF t = type_name THEN instance ELSE w[e][t]]]

\* world.entity_mut(entity).insert(component)
insert(w, entity, type_name, instance) ==
    [w EXCEPT ![entity] =
        [t \in DOMAIN w[entity] \cup {type_name} |->
            IF t = type_name THEN instance ELSE w[entity][t]]]

\* An add_component without the contains_type_id test: always the default
\* instance with the step's fields applied.
add_component_fresh(w, entity, comp) ==
    insert(w, entity, comp.name, apply(DefaultInstance(comp.name), comp.root))

\* The add-or-apply of a component step (add_component, and the same lines in
\* PrefabAddComponent::write, process_command, AddComponentCommand::write and
\* LoadPrefab::run): apply_component onto the instance the entity has,
\* add_component (the default instance, then apply) when it has none.
add_component(w, entity, comp) ==
    IF contains_type_id(w[entity], comp.name)
    THEN insert(w, entity, comp.name, apply(w[entity][comp.name], comp.root))
    ELSE insert(w, entity, comp.name, apply(DefaultInstance(comp.name), comp.root))

\* A build command other than LoadPrefab (a bundle processor): it inserts its
\* bundle, here one component named after the command's key.
process_prefab(w, entity, data) == insert(w, entity, data.name, DefaultInstance(data.name))

\* A deferred command of the queue, and a frame of a running nested prefab:
\* the pipeline, the entity, the document (by its Arc) and the step's index.
Command(pipe, entity, arc, idx, step) ==
    [pipe |-> pipe, entity |-> entity, arc |-> arc, idx |-> idx, step |-> step]

Frame(pipe, entity, prefab, pc, from_arc, from_idx) ==
    [pipe |-> pipe, entity |-> entity, arc |-> prefab.id, steps |-> prefab.steps,
     pc |-> pc, from_arc |-> from_arc, from_idx |-> from_idx]

\* The events of the log: a step of a document begins, a step ends.
Event(ev, arc, idx, step) ==
    [ev |-> ev, arc |-> arc, idx |-> idx, kind |-> step.kind, name |-> step.name]

\* What executing one step does: the world after it, the call of try_load it
\* made (path "" for none), the frame it pushes and the panic it ends in.
Outcome(w, path, l, push, panic) ==
    [world |-> w, path |-> path, l |-> l, push |-> push, panic |-> panic]

NoLoad == Loaded(Ok(NoArc), prefab_map, next_arc, FALSE, FALSE)

\* A nested load without the call of registry.load: get_prefab(path).unwrap()
\* alone, which finds the document only if something else loaded it.
load_nested_unloaded(c) ==
    IF contains_key(prefab_map, c.step.name)
    THEN Outcome(world, "", NoLoad,
                 <<Frame(1, c.entity, prefab_map[c.step.name], 1, c.arc, c.idx)>>, "none")
    ELSE Outcome(world, "", NoLoad, <<>>, "unwrap on None")

\* A nested load that goes to the file whatever the cache holds.
load_nested_reading(c) ==
    LET l == try_load_uncached(prefab_map, next_arc, c.step.name) IN
    IF l.res.tag # "Ok"
    THEN Outcome(world, c.step.name, l, <<>>, l.res.err)
    ELSE Outcome(world, c.step.name, l,
                 <<Frame(1, c.entity, l.res.val, 1, c.arc, c.idx)>>, "none")

\* The nested load of pipeline 1 (PrefabLoadCommand::write and the LoadPrefab
\* arm of process_command): registry.load(path).unwrap(), then load_prefab.
load_nested(c) ==
    LET l == try_load(prefab_map, next_arc, c.step.name) IN
    IF l.res.tag # "Ok"
    THEN Outcome(world, c.step.name, l, <<>>, l.res.err)
    ELSE Outcome(world, c.step.name, l,
                 <<Frame(1, c.entity, l.res.val, 1, c.arc, c.idx)>>, "none")

\* PrefabProcessorData::processor of pipeline 1: the processor registered
\* under the step's key; a key without one is fatal.
run_processor(c) ==
    IF c.step.name \notin DOMAIN processors
    THEN Outcome(world, "", NoLoad, <<>>, "UnregisteredCommand")
    ELSE Outcome(process_prefab(world, c.entity, c.step), "", NoLoad, <<>>, "none")

\* process_command, and the three Command::write of commands.rs.
process_command(c) ==
    CASE c.step.kind = "AddComponent" ->
             Outcome(add_component(world, c.entity, c.step), "", NoLoad, <<>>, "none")
      [] c.step.kind = "Processor" -> run_processor(c)
      [] c.step.kind = "LoadPrefab" -> load_nested(c)

\* The name and the `name` property of the build command a step of pipeline 2
\* runs: a load!(path) step is the command LoadPrefab with name: path.
command_name(step) == IF step.kind = "LoadPrefab" THEN LoadPrefabKey ELSE step.name

name_property(step) == IF step.kind = "LoadPrefab" THEN step.name ELSE ""

\* LoadPrefab::run: nothing without a `name` property; else
\* world.resource_scope on the registry, which panics when the registry is
\* already taken out of the world by an enclosing resource_scope, then
\* reg.load(name).unwrap() and the loop over the steps.
LoadPrefab_run(c, in_scope) ==
    IF name_property(c.step) = ""
    THEN Outcome(world, "", NoLoad, <<>>, "none")
    ELSE IF in_scope
    THEN Outcome(world, "", NoLoad, <<>>, "resource does not exist")
    ELSE LET l == try_load(prefab_map, next_arc, name_property(c.step)) IN
         IF l.res.tag # "Ok"
         THEN Outcome(world, name_property(c.step), l, <<>>, l.res.err)
         ELSE Outcome(world, name_property(c.step), l,
                      <<Frame(2, c.entity, l.res.val, 1, c.arc, c.idx)>>, "none")

\* reg.data::<ReflectComponent>(): the registration holds the capability
\* when the type was declared with #[reflect(Component)], as every type here
\* but other::U.
data_ReflectComponent(registration) == registration # "other::U"

\* An AddComponentCommand::write that adds the component of any registered
\* type, with or without the capability.
AddComponentCommand_write_any(c) ==
    IF c.step.name \notin DOMAIN type_info_map
    THEN Outcome(world, "", NoLoad, <<>>, "unwrap on None")
    ELSE Outcome(add_component(world, c.entity, c.step), "", NoLoad, <<>>, "none")

\* AddComponentCommand::write and the AddComponent arm of LoadPrefab::run:
\* get_type_data(type_name).unwrap(), then add or apply.
AddComponentCommand_write(c) ==
    IF c.step.name \notin DOMAIN type_info_map
    THEN Outcome(world, "", NoLoad, <<>>, "unwrap on None")
    ELSE IF ~data_ReflectComponent(type_info_map[c.step.name].registration)
    THEN Outcome(world, "", NoLoad, <<>>, "Error reading reflect data")
    ELSE Outcome(add_component(world, c.entity, c.step), "", NoLoad, <<>>, "none")

\* A PrefabProcessCommand::write that passes over a command that is not
\* registered instead of panicking.
PrefabProcessCommand_write_lenient(c, in_scope) ==
    IF command_name(c.step) \notin DOMAIN processors
    THEN Outcome(world, "", NoLoad, <<>>, "none")
    ELSE IF command_name(c.step) = LoadPrefabKey
    THEN LoadPrefab_run(c, in_scope)
    ELSE Outcome(process_prefab(world, c.entity, c.step), "", NoLoad, <<>>, "none")

\* PrefabProcessCommand::write and the RunCommand arm of LoadPrefab::run:
\* the build command is looked up by name when the step runs.
PrefabProcessCommand_write(c, in_scope) ==
    IF command_name(c.step) \notin DOMAIN processors
    THEN Outcome(world, "", NoLoad, <<>>, "UnregisteredCommand")
    ELSE IF command_name(c.step) = LoadPrefabKey
    THEN LoadPrefab_run(c, in_scope)
    ELSE Outcome(process_prefab(world, c.entity, c.step), "", NoLoad, <<>>, "none")

build_step(c, in_scope) ==
    IF c.step.kind = "AddComponent"
    THEN AddComponentCommand_write(c)
    ELSE PrefabProcessCommand_write(c, in_scope)

\* One turn of the loop of load_prefab_aahh (pipeline 3, a function of
\* commands.rs that takes the document itself): its LoadPrefab arm calls
\* load_prefab_aahh(prefab.clone(), ..), the document it is running.
load_prefab_aahh_step(c) ==
    CASE c.step.kind = "AddComponent" ->
             Outcome(add_component(world, c.entity, c.step), "", NoLoad, <<>>, "none")
      [] c.step.kind = "Processor" -> run_processor(c)
      [] c.step.kind = "LoadPrefab" ->
             Outcome(world, "", NoLoad,
                     <<[Head(stack) EXCEPT !.pc = 1, !.from_arc = c.arc, !.from_idx = c.idx]>>,
                     "none")

\* The command EntityCommands::insert(component) queues, written: the
\* component is put on the entity, over the one of its type already there.
Insert_write(c) ==
    Outcome(insert(world, c.entity, c.step.name, apply(DefaultInstance(c.step.name), c.step.root)),
            "", NoLoad, <<>>, "none")

\* One step of a pipeline.
Execute(c, in_scope) ==
    CASE c.pipe = 0 -> Insert_write(c)
      [] c.pipe = 1 -> process_command(c)
      [] c.pipe = 2 -> build_step(c, in_scope)
      [] c.pipe = 3 -> load_prefab_aahh_step(c)

\* The log after a step: it begins; it ends at once unless it panicked or
\* pushed the frame of a nested prefab.
Logged(c, o) ==
    [log EXCEPT ![c.entity] =
        IF o.panic # "none" \/ o.push # <<>>
        THEN Append(@, Event("begin", c.arc, c.idx, c.step))
        ELSE Append(Append(@, Event("begin", c.arc, c.idx, c.step)),
                    Event("end", c.arc, c.idx, c.step))]

\* The state after the step c, the rest of the stack being `below`.
Executed(c, o, below) ==
    /\ o.l.next_arc <= MaxArcs + 1
    /\ Len(o.push \o below) <= MaxDepth
    /\ world' = o.world
    /\ prefab_map' = o.l.prefab_map
    /\ next_arc' = o.l.next_arc
    /\ fs_reads' = IF o.path = "" THEN fs_reads ELSE Counted(fs_reads, o.path, o.l.read)
    /\ parses' = IF o.path = "" THEN parses ELSE Counted(parses, o.path, o.l.parse)
    /\ nested_loads' = IF o.path = "" THEN nested_loads
                       ELSE [nested_loads EXCEPT ![o.path] = @ + 1]
    /\ panicked' = o.panic
    /\ stack' = o.push \o below
    /\ log' = Logged(c, o)

\* Commands::spawn().id()
NewEntity == Len(world) + 1

\* The commands of a prefab queued last step first (a loop over
\* commands().rev()).
QueuedReversed(pipe, entity, prefab) ==
    [i \in 1..Len(prefab.steps) |->
        Command(pipe, entity, prefab.id, Len(prefab.steps) + 1 - i,
                prefab.steps[Len(prefab.steps) + 1 - i])]

\* The commands one prefab queues, one per step, in step order.
Queued(pipe, entity, prefab) ==
    [i \in 1..Len(prefab.steps) |-> Command(pipe, entity, prefab.id, i, prefab.steps[i])]

\* A spawn_prefab that spawns the entity before it loads: the entity is there
\* even when the load fails.
spawn_prefab_eager(prefab_name) ==
    /\ Idle
    /\ LET l == try_load(prefab_map, next_arc, prefab_name) IN
       /\ l.next_arc <= MaxArcs + 1
       /\ l.read => fs_reads[prefab_name] < MaxReads
       /\ Len(world) < MaxEntities
       /\ prefab_map' = l.prefab_map
       /\ next_arc' = l.next_arc
       /\ fs_reads' = Counted(fs_reads, prefab_name, l.read)
       /\ parses' = Counted(parses, prefab_name, l.parse)
       /\ panicked' = IF l.res.tag = "Panic" THEN l.res.err ELSE "none"
       /\ last' = Call("spawn_prefab", prefab_name, l.res, l.read)
       /\ world' = Append(world, NoComponents)
       /\ log' = Append(log, <<>>)
       /\ queue' = IF l.res.tag = "Ok" THEN queue \o Queued(1, NewEntity, l.res.val) ELSE queue
    /\ UNCHANGED <<type_info_map, processors, stack, applying, nested_loads, parsed>>

\* SpawnPrefabCommands2::spawn_prefab: try_load(prefab_name)?, a new entity,
\* and one queued command per step.
spawn_prefab(prefab_name) ==
    /\ Idle
    /\ LET l == try_load(prefab_map, next_arc, prefab_name) IN
       /\ l.next_arc <= MaxArcs + 1
       /\ l.read => fs_reads[prefab_name] < MaxReads
       /\ l.res.tag = "Ok" => Len(world) < MaxEntities
       /\ prefab_map' = l.prefab_map
       /\ next_arc' = l.next_arc
       /\ fs_reads' = Counted(fs_reads, prefab_name, l.read)
       /\ parses' = Counted(parses, prefab_name, l.parse)
       /\ panicked' = IF l.res.tag = "Panic" THEN l.res.err ELSE "none"
       /\ last' = Call("spawn_prefab", prefab_name, l.res, l.read)
       /\ IF l.res.tag = "Ok"
          THEN /\ world' = Append(world, NoComponents)
               /\ log' = Append(log, <<>>)
               /\ queue' = queue \o Queued(1, NewEntity, l.res.val)
          ELSE UNCHANGED <<world, log, queue>>
    /\ UNCHANGED <<type_info_map, processors, stack, applying, nested_loads, parsed>>

\* An insert_prefab whose commands go to the front of the queue.
insert_prefab_front(prefab_name) ==
    /\ Idle
    /\ LET l == try_load(prefab_map, next_arc, prefab_name) IN
       /\ l.next_arc <= MaxArcs + 1
       /\ l.read => fs_reads[prefab_name] < MaxReads
       /\ l.res.tag = "Ok" => Len(world) < MaxEntities
       /\ prefab_map' = l.prefab_map
       /\ next_arc' = l.next_arc
       /\ fs_reads' = Counted(fs_reads, prefab_name, l.read)
       /\ parses' = Counted(parses, prefab_name, l.parse)
       /\ panicked' = IF l.res.tag # "Ok" THEN l.res.err ELSE "none"
       /\ last' = Call("insert_prefab", prefab_name, l.res, l.read)
       /\ IF l.res.tag = "Ok"
          THEN /\ world' = Append(world, NoComponents)
               /\ log' = Append(log, <<>>)
               /\ queue' = Queued(2, NewEntity, l.res.val) \o queue
          ELSE UNCHANGED <<world, log, queue>>
    /\ UNCHANGED <<type_info_map, processors, stack, applying, nested_loads, parsed>>

\* SpawnPrefabCommands::insert_prefab as the examples call it:
\* registry.load(prefab_name).unwrap(), then commands.spawn().insert_prefab:
\* one queued command per step.
insert_prefab(prefab_name) ==
    /\ Idle
    /\ LET l == try_load(prefab_map, next_arc, prefab_name) IN
       /\ l.next_arc <= MaxArcs + 1
       /\ l.read => fs_reads[prefab_name] < MaxReads
       /\ l.res.tag = "Ok" => Len(world) < MaxEntities
       /\ prefab_map' = l.prefab_map
       /\ next_arc' = l.next_arc
       /\ fs_reads' = Counted(fs_reads, prefab_name, l.read)
       /\ parses' = Counted(parses, prefab_name, l.parse)
       /\ panicked' = IF l.res.tag # "Ok" THEN l.res.err ELSE "none"
       /\ last' = Call("insert_prefab", prefab_name, l.res, l.read)
       /\ IF l.res.tag = "Ok"
          THEN /\ world' = Append(world, NoComponents)
               /\ log' = Append(log, <<>>)
               /\ queue' = queue \o Queued(2, NewEntity, l.res.val)
          ELSE UNCHANGED <<world, log, queue>>
    /\ UNCHANGED <<type_info_map, processors, stack, applying, nested_loads, parsed>>

\* A queue whose next command is written while the loop of a nested prefab
\* is still running (the nested steps deferred instead of run in place).
ApplyCommandInterleaved ==
    /\ Running
    /\ queue # <<>>
    /\ Executed(Head(queue), Execute(Head(queue), FALSE), stack)
    /\ queue' = Tail(queue)
    /\ applying' = (queue' # <<>> \/ stack' # <<>>)
    /\ UNCHANGED <<type_info_map, processors, last, parsed>>

\* The command queue is applied: the next command's write.
ApplyCommand ==
    /\ Running
    /\ stack = <<>>
    /\ queue # <<>>
    /\ Executed(Head(queue), Execute(Head(queue), FALSE), <<>>)
    /\ queue' = Tail(queue)
    /\ applying' = (queue' # <<>> \/ stack' # <<>>)
    /\ UNCHANGED <<type_info_map, processors, last, parsed>>

\* The loop of load_prefab (pipeline 1) or of LoadPrefab::run (pipeline 2, run
\* inside resource_scope) over the steps of a nested prefab: its next step.
LoopStep ==
    /\ Running
    /\ stack # <<>>
    /\ Head(stack).pc <= Len(Head(stack).steps)
    /\ LET f == Head(stack)
           c == Command(f.pipe, f.entity, f.arc, f.pc, f.steps[f.pc])
       IN  Executed(c, Execute(c, TRUE), <<[f EXCEPT !.pc = @ + 1]>> \o Tail(stack))
    /\ applying' = TRUE
    /\ UNCHANGED <<type_info_map, processors, queue, last, parsed>>

\* The loop is over: the call returns and the load step that made it ends.
LoopReturn ==
    /\ Running
    /\ stack # <<>>
    /\ Head(stack).pc > Len(Head(stack).steps)
    /\ stack' = Tail(stack)
    /\ applying' = (queue # <<>> \/ stack' # <<>>)
    /\ log' = IF Head(stack).from_idx = 0
               THEN log
               ELSE [log EXCEPT ![Head(stack).entity] =
                        Append(@, [ev |-> "end", arc |-> Head(stack).from_arc,
                                   idx |-> Head(stack).from_idx, kind |-> "LoadPrefab",
                                   name |-> ""])]
    /\ UNCHANGED <<type_info_map, processors, prefab_map, next_arc, fs_reads, parses,
                   world, queue, nested_loads, panicked, last, parsed>>

\* The prefabs the systems spawn; the other paths are loaded as nested prefabs.
SpawnPaths == {"mid", "top", "ordered", "lazy", "cmd", "bad"}

Next ==
    \/ \E p \in SpawnPaths : spawn_prefab(p)
    \/ \E p \in SpawnPaths : insert_prefab(p)
    \/ ApplyCommand
    \/ LoopStep
    \/ LoopReturn

Spec == Init /\ [][Next]_vars

(***************************************************************************)
(* Documents that include themselves, and the recursion of the three       *)
(* assemblers over them and over a document that does not.                 *)
(***************************************************************************)
CyclicPaths == {"loop", "ping"}

\* A call load_prefab_aahh(prefab, entity, world) on a cached document and
\* an entity of the world.
load_prefab_aahh(prefab_name, entity) ==
    /\ Idle
    /\ queue = <<>>
    /\ contains_key(prefab_map, prefab_name)
    /\ log[entity] = <<>>
    /\ stack' = <<Frame(3, entity, prefab_map[prefab_name], 1, 0, 0)>>
    /\ applying' = TRUE
    /\ last' = Call("load_prefab_aahh", prefab_name, Ok(prefab_map[prefab_name]), FALSE)
    /\ UNCHANGED <<type_info_map, processors, prefab_map, next_arc, fs_reads, parses,
                   world, queue, log, nested_loads, panicked, parsed>>

\* World::spawn().id()
Spawn ==
    /\ Idle
    /\ Len(world) < MaxEntities
    /\ world' = Append(world, NoComponents)
    /\ log' = Append(log, <<>>)
    /\ UNCHANGED <<type_info_map, processors, prefab_map, next_arc, fs_reads, parses,
                   queue, stack, applying, nested_loads, panicked, last, parsed>>

NextDeep ==
    \/ \E p \in CyclicPaths \cup {"mid"} : spawn_prefab(p)
    \/ \E p \in CyclicPaths : insert_prefab(p)
    \/ Spawn
    \/ \E e \in DOMAIN world : load_prefab_aahh("mid", e)
    \/ ApplyCommand
    \/ LoopStep
    \/ LoopReturn

SpecDeep == Init /\ [][NextDeep]_vars

(***************************************************************************)
(* Spawning, unloading and spawning again: documents removed from the      *)
(* cache while commands made from them are queued, and loaded again.       *)
(***************************************************************************)
TemplatePaths == {"ordered", "mid"}

NextTemplate ==
    \/ \E p \in TemplatePaths : spawn_prefab(p)
    \/ \E p \in TemplatePaths : insert_prefab(p)
    \/ \E p \in TemplatePaths : Remove(p)
    \/ ApplyCommand
    \/ LoopStep
    \/ LoopReturn

SpecTemplate == Init /\ [][NextTemplate]_vars

(***************************************************************************)
(* The registry alone: loads and removals of the paths below, and the      *)
(* registrations a running program still makes.                            *)
(***************************************************************************)
RegistryPaths == {"leaf", "mid", "lazy", "bad", "nest", "missing"}

NextRegistry ==
    \/ \E p \in RegistryPaths : load(p)
    \/ \E p \in RegistryPaths : Remove(p)
    \/ register_type("U")
    \/ add_processor(Processor("P", "P1"))

SpecRegistry == Init /\ [][NextRegistry]_vars

(***************************************************************************)
(* The setup of an application: registrations of types and processors,     *)
(* repeated and under colliding names, and loads between them.             *)
(***************************************************************************)
SetupPaths == {"ordered", "bad"}

NextSetup ==
    \/ \E t \in TypeIds : register_type(t)
    \/ \E q \in Processors : add_processor(q)
    \/ \E p \in SetupPaths : load(p)

SpecSetup == Init /\ [][NextSetup]_vars

(***************************************************************************)
(* The parser alone: parse_prefab of parse.rs applied to the sources below. *)
(***************************************************************************)
\* Steps in a source.
MaxSteps == 3

\* The steps a source is written from.
SourceSteps ==
    {Comp("A", <<>>), Comp("U", <<>>), Comp("T", <<Field("x", 5)>>),
     Comp("T", <<Comp("U", <<>>)>>), Proc("P", <<>>), Proc("Q", <<Field("k", 1)>>),
     Comp("T", <<Field("y", 1), Field("x", 2), Field("y", 3)>>),
     Comp("V", <<Field("b", 1), Field("a", 2), Field("b", 3)>>),
     Proc("Q", <<Field("k", 1), Field("j", 2), Field("k", 3)>>)}

Sources == UNION {[1..n -> SourceSteps] : n \in 0..MaxSteps}

\* A call of parse_prefab(input, registry), as the tests of parse.rs make it:
\* each test parses one source (the function keeps no state between calls).
ParsePrefab(input) ==
    /\ Idle
    /\ parsed.input = <<>>
    /\ parsed' = [input |-> input, res |-> parse_prefab(input, type_info_map)]
    /\ UNCHANGED <<type_info_map, processors, prefab_map, next_arc, fs_reads, parses, world,
                   queue, stack, applying, log, nested_loads, panicked, last>>

NextParse == \E input \in Sources \cup {BadSyntax} : ParsePrefab(input)

SpecParse == Init /\ [][NextParse]_vars

(***************************************************************************)
(* The cache of the registry (C1, C2).                                     *)
(***************************************************************************)
\* C1 as stated: the source of a path is read at most once between two
\* removals of the path (fs_reads counts the reads since the last removal).
C1_ReadAtMostOnce == \A p \in Paths : fs_reads[p] <= 1 /\ parses[p] <= 1

\* C1, amended: a load of a cached path returns the cached document (the same
\* Arc) without reading or parsing; a load that read the source and returned
\* a document cached that document; and an entry of the cache changes only
\* by such a load of its path or by remove of its path.  So from the load
\* that returned a document until the next remove of the path every load
\* returns that same document and the source is not read again; a load that
\* fails caches nothing, and the next load reads the source again.
C1_CacheIdempotent ==
    [][/\ \A p \in {last'.path} \cap Paths :
            /\ (load(p) /\ contains_key(prefab_map, p)) =>
                  /\ last'.tag = "Ok"
                  /\ last'.arc = prefab_map[p].id
                  /\ ~last'.read
                  /\ fs_reads' = fs_reads
                  /\ parses' = parses
                  /\ prefab_map' = prefab_map
            /\ (load(p) /\ ~contains_key(prefab_map, p)) =>
                  /\ last'.read
                  /\ last'.tag = "Ok" => /\ contains_key(prefab_map', p)
                                          /\ prefab_map'[p].id = last'.arc
                                          /\ \A q \in Paths \ {p} : prefab_map[q].id # last'.arc
                  /\ last'.tag # "Ok" => prefab_map' = prefab_map
       /\ \A p \in Paths :
            prefab_map'[p] # prefab_map[p] =>
                \/ Remove(p)
                \/ load(p) /\ ~contains_key(prefab_map, p)
      ]_vars

\* A load has just hit the cache: the path was read once, and loaded again.
C1_Witness ==
    /\ last.op = "load"
    /\ last.tag = "Ok"
    /\ ~last.read
    /\ contains_key(prefab_map, last.path)
    /\ prefab_map[last.path].id = last.arc
    /\ fs_reads[last.path] = 1

\* C2: remove(p) deletes the entry of p and no other; the load of an
\* uncached path reads the source and, when there is a file, parses it; a
\* remove of a path that is not cached leaves the registry as it is.
C2_RemoveExact ==
    [][/\ \A p \in Paths :
            Remove(p) =>
              /\ ~contains_key(prefab_map', p)
              /\ \A q \in Paths \ {p} : prefab_map'[q] = prefab_map[q]
              /\ ~contains_key(prefab_map, p) =>
                    /\ prefab_map' = prefab_map
                    /\ type_info_map' = type_info_map
                    /\ processors' = processors
                    /\ next_arc' = next_arc
       /\ \A p \in {last'.path} \cap Paths :
            (load(p) /\ ~contains_key(prefab_map, p)) =>
              /\ fs_reads'[p] = fs_reads[p] + 1
              /\ Files(p) # NoFile => parses'[p] = parses[p] + 1
      ]_vars

\* "mid" was cached first; a document cached after it was removed; "leaf"
\* was then read again and is a new document, and "mid" is still the first.
C2_Witness ==
    /\ prefab_map["mid"].id = 1
    /\ prefab_map["leaf"].id = 3
    /\ \A q \in Paths \ {"mid", "leaf"} : ~contains_key(prefab_map, q)
    /\ fs_reads["leaf"] = 1
    /\ last.op = "load" /\ last.path = "leaf" /\ last.read

(***************************************************************************)
(* The assemblers (C3 - C6, C10).                                          *)
(***************************************************************************)
\* The step the next ApplyCommand or LoopStep executes.
Current ==
    IF stack # <<>>
    THEN Command(Head(stack).pipe, Head(stack).entity, Head(stack).arc, Head(stack).pc,
                 Head(stack).steps[Head(stack).pc])
    ELSE Head(queue)

\* The entity e is assembled from the document cached under path.
BuiltFrom(e, path) ==
    /\ log[e] # <<>>
    /\ contains_key(prefab_map, path)
    /\ log[e][1].arc = prefab_map[path].id

\* The event ev of (arc, idx) is in the log of e before position n.
Earlier(e, n, ev, arc, idx) ==
    \E m \in 1..(n - 1) :
        log[e][m].ev = ev /\ log[e][m].arc = arc /\ log[e][m].idx = idx

\* The names of the component steps begun on e, in the order they began.
ComponentsBegun(e) ==
    LET begun == SelectSeq(log[e], LAMBDA ev : ev.ev = "begin" /\ ev.kind = "AddComponent")
    IN  [i \in 1..Len(begun) |-> begun[i].name]

IsPrefix(s, t) == Len(s) <= Len(t) /\ \A i \in 1..Len(s) : s[i] = t[i]

\* C3: on every entity the steps of a document run in the order the document
\* stores them: each event is of a step of a cached document, a step begins
\* only after every step before it in its document has ended, it ends only
\* after it began, no step runs twice, and when a component step has ended
\* the entity has the component.
C3_StepsInOrder ==
    \A e \in DOMAIN log : \A n \in DOMAIN log[e] :
        LET ev == log[e][n] IN
        /\ \E p \in Paths :
              /\ prefab_map[p].id = ev.arc
              /\ ev.idx \in DOMAIN prefab_map[p].steps
              /\ ev.ev = "begin" => /\ prefab_map[p].steps[ev.idx].kind = ev.kind
                                     /\ prefab_map[p].steps[ev.idx].name = ev.name
        /\ ev.ev = "begin" => \A i \in 1..(ev.idx - 1) : Earlier(e, n, "end", ev.arc, i)
        /\ ev.ev = "end" => Earlier(e, n, "begin", ev.arc, ev.idx)
        /\ \A m \in 1..(n - 1) :
              log[e][m].arc = ev.arc =>
                  \/ log[e][m].idx < ev.idx
                  \/ log[e][m].idx = ev.idx /\ log[e][m].ev = "begin" /\ ev.ev = "end"
        /\ (ev.ev = "end" /\ ev.kind = "AddComponent") => ev.name \in DOMAIN world[e]

\* The three steps of "mid" have all ended on an entity: two ran as queued
\* commands or loop steps, the nested one ran the loop over "leaf".
C3_Witness ==
    \E e \in DOMAIN log :
        /\ BuiltFrom(e, "mid")
        /\ \E n \in DOMAIN log[e] :
              log[e][n].ev = "end" /\ log[e][n].arc = prefab_map["mid"].id /\ log[e][n].idx = 3
        /\ DOMAIN world[e] = {"A", "B", "C"}

\* C4: a component step without a component of its type on the entity gives
\* the type's default with the step's fields laid over it; with one, it
\* changes exactly the fields the step names; the other components stay.
\* "ordered" ([T{x:5,y:5}, T{x:9}]) gives T{x:5,y:5} after one step and
\* T{x:9,y:5} after both.
C4_AddOrApply ==
    [][/\ ((ApplyCommand \/ LoopStep) /\ Current.step.kind = "AddComponent"
                                       /\ panicked' = "none") =>
            LET e == Current.entity
                t == Current.step.name
                root == Current.step.root
                base == IF t \in DOMAIN world[e] THEN world[e][t]
                        ELSE [f \in StructFields(t) |-> 0]
            IN  /\ DOMAIN world'[e] = DOMAIN world[e] \cup {t}
                /\ \A f \in StructFields(t) :
                      IF \E i \in DOMAIN root : root[i].name = f
                      THEN \E i \in DOMAIN root :
                               root[i].name = f /\ world'[e][t][f] = root[i].value
                      ELSE world'[e][t][f] = base[f]
                /\ \A u \in DOMAIN world[e] \ {t} : world'[e][u] = world[e][u]
       /\ \A e \in DOMAIN log' :
            (BuiltFrom(e, "ordered"))' =>
                /\ Len(log'[e]) = 2 => world'[e]["T"] = [x |-> 5, y |-> 5]
                /\ Len(log'[e]) = 4 => world'[e]["T"] = [x |-> 9, y |-> 5]
      ]_vars

\* Both steps of "ordered" have run on an entity, and its T is {x:9, y:5}.
C4_Witness ==
    \E e \in DOMAIN log :
        /\ BuiltFrom(e, "ordered")
        /\ Len(log[e]) = 4
        /\ world[e]["T"] = [x |-> 9, y |-> 5]

\* C5: the steps of a nested prefab run in place of its load step: on an
\* entity built from "mid" ([A, load leaf, B], leaf = [C]) the components
\* begin in the order A, C, B; and every event of a nested document lies
\* between the begin and the end of the load step that includes it.
C5_NestedSplice ==
    \A e \in DOMAIN log :
        /\ BuiltFrom(e, "mid") =>
              /\ IsPrefix(ComponentsBegun(e), <<"A", "C", "B">>)
              /\ Earlier(e, Len(log[e]) + 1, "end", prefab_map["mid"].id, 3) =>
                    ComponentsBegun(e) = <<"A", "C", "B">>
        /\ \A n \in DOMAIN log[e] :
              (log[e][n].ev = "begin" /\ log[e][n].kind = "LoadPrefab"
                                      /\ contains_key(prefab_map, log[e][n].name)) =>
                  \A k \in DOMAIN log[e] :
                      log[e][k].arc = prefab_map[log[e][n].name].id =>
                          /\ k > n
                          /\ \A m \in DOMAIN log[e] :
                                (log[e][m].ev = "end" /\ log[e][m].arc = log[e][n].arc
                                                     /\ log[e][m].idx = log[e][n].idx) => k < m

\* An entity built from "mid" is complete: A, C, B in this order.
C5_Witness ==
    \E e \in DOMAIN log :
        /\ BuiltFrom(e, "mid")
        /\ ComponentsBegun(e) = <<"A", "C", "B">>
        /\ Earlier(e, Len(log[e]) + 1, "end", prefab_map["mid"].id, 3)
        /\ queue = <<>> /\ stack = <<>>

\* C6: an entity built from "top" (top includes mid, mid includes leaf, every
\* file there and every type registered) is never the one a step fails on:
\* the program does not end with a step of this entity begun and not ended.
C6_NestedAnyDepth ==
    \A e \in DOMAIN log :
        BuiltFrom(e, "top") =>
            ~(panicked # "none" /\ log[e][Len(log[e])].ev = "begin")

RECURSIVE TypesIn(_)
TypesIn(nodes) ==
    IF nodes = <<>> THEN {}
    ELSE (IF Head(nodes).rule = "component"
          THEN {Head(nodes).name} \cup TypesIn(Head(nodes).children)
          ELSE {})
         \cup TypesIn(Tail(nodes))

\* The command calls of a source, in source order.
CommandCalls(input) == SelectSeq(input, LAMBDA node : node.rule = "processor")

\* The kind of every step of a source, in source order.
Kinds(input) == [i \in DOMAIN input |-> input[i].rule]

\* C7: the load of a file that refers to an unregistered type, at the top
\* level or nested in a component, returns the error
\* UnregisteredPrefabComponent to its caller: no panic, and the cache is as
\* it was.
C7_UnregisteredIsError ==
    [][\A p \in {last'.path} \cap Paths :
          (/\ load(p)
           /\ ~contains_key(prefab_map, p)
           /\ Files(p) # NoFile
           /\ ~(TypesIn(Files(p)) \subseteq DOMAIN type_info_map)) =>
              /\ last'.tag = "Err"
              /\ last'.err = "UnregisteredPrefabComponent"
              /\ panicked' = "none"
              /\ prefab_map' = prefab_map
      ]_vars

C9_SourceOrderKept ==
    parsed.res.tag = "Ok" =>
        \A other \in Sources :
            parse_prefab(other, type_info_map) = parsed.res =>
                Kinds(other) = Kinds(parsed.input)

C12_NoRollback ==
    [][/\ ((ApplyCommand \/ LoopStep) /\ panicked' # "none") =>
              /\ world' = world
              /\ \A e \in DOMAIN log : \A n \in DOMAIN log[e] :
                     (log[e][n].ev = "end" /\ log[e][n].kind = "AddComponent") =>
                         log[e][n].name \in DOMAIN world'[e]
       /\ panicked # "none" => UNCHANGED <<world, log, queue, stack>>
      ]_vars

\* "lazy" failed at its second step, the load of a missing file: the
\* component of the first step is on the entity, the third step never ran.
C12_Witness ==
    /\ panicked = "PrefabFileReadError"
    /\ \E e \in DOMAIN world :
          /\ BuiltFrom(e, "lazy")
          /\ DOMAIN world[e] = {"A"}
          /\ \E n \in DOMAIN log[e] : log[e][n].ev = "end" /\ log[e][n].name = "A"
          /\ \A n \in DOMAIN log[e] : log[e][n].name # "B"

(***************************************************************************)
(* Registration (C13).                                                     *)
(***************************************************************************)
\* C13: register_type and add_processor insert or overwrite by name.  The
\* registry has one entry per name; after a registration the entry under the
\* name is that registration (the last one wins), a name registered before
\* adds no entry, every other entry is as it was, and the other map and the
\* cached documents are untouched.
C13_RegisterOverwrites ==
    [][/\ \A t \in TypeIds : register_type(t) =>
              /\ DOMAIN type_info_map' = DOMAIN type_info_map \cup {short_name(t)}
              /\ short_name(t) \in DOMAIN type_info_map =>
                     Cardinality(DOMAIN type_info_map') = Cardinality(DOMAIN type_info_map)
              /\ type_info_map'[short_name(t)] = TypeInfo(t)
              /\ \A n \in DOMAIN type_info_map \ {short_name(t)} :
                     type_info_map'[n] = type_info_map[n]
              /\ UNCHANGED <<processors, prefab_map>>
       /\ \A q \in Processors : add_processor(q) =>
              /\ DOMAIN processors' = DOMAIN processors \cup {q.key}
              /\ q.key \in DOMAIN processors =>
                     Cardinality(DOMAIN processors') = Cardinality(DOMAIN processors)
              /\ processors'[q.key] = q
              /\ \A k \in DOMAIN processors \ {q.key} : processors'[k] = processors[k]
              /\ UNCHANGED <<type_info_map, prefab_map>>
       /\ \A n \in DOMAIN type_info_map' : type_info_map'[n].type_name = n
       /\ \A k \in DOMAIN processors' : processors'[k].key = k
      ]_vars

\* T and Q, registered from the start, were registered again by another type
\* and another processor of the same name: the later registrations are the
\* entries, and the registry has no entry more than at the start.
C13_Witness ==
    /\ type_info_map["T"].registration = "other::T"
    /\ processors["Q"].arc = "Q2"
    /\ DOMAIN type_info_map = {"A", "B", "C", "T", "V"}
    /\ DOMAIN processors = {LoadPrefabKey, "Q"}

(***************************************************************************)
(* Recursion of the assemblers (C14, C15).                                 *)
(***************************************************************************)
\* The paths the file of a path includes with load!, and the paths reached
\* from a set of paths by following includes.
Includes(path) ==
    {Files(path)[i].name : i \in {j \in DOMAIN Files(path) : Files(path)[j].rule = "load"}}

RECURSIVE Reached(_, _)
Reached(paths, n) ==
    IF n = 0 THEN paths
    ELSE Reached(paths \cup UNION {Includes(p) : p \in paths}, n - 1)

Acyclic(path) == path \notin Reached(Includes(path), Cardinality(Paths))

\* The path a document is cached under.
PathOf(arc) == CHOOSE p \in Paths : contains_key(prefab_map, p) /\ prefab_map[p].id = arc

\* The document is being assembled: the running step is one of its steps, or
\* one of the nested calls in progress is running it.
Assembling(arc) == Current.arc = arc \/ \E i \in DOMAIN stack : stack[i].arc = arc

\* C14: a load step that names a document being assembled (the document
\* includes itself, directly or through others) is run like any other load
\* step: nothing detects the repeated path, and the step enters the document
\* once more, from its first step, without any failure.
C14_CycleRecurses ==
    [][((ApplyCommand \/ LoopStep)
        /\ Current.pipe \in {1, 2}
        /\ Current.step.kind = "LoadPrefab"
        /\ contains_key(prefab_map, Current.step.name)
        /\ Assembling(prefab_map[Current.step.name].id)) =>
           /\ panicked' = "none"
           /\ Len(stack') = Len(stack) + 1
           /\ Head(stack').arc = prefab_map[Current.step.name].id
           /\ Head(stack').pc = 1
      ]_vars

\* C15: the assembly of a document whose includes are acyclic finishes.  It
\* can finish only if the nesting of calls stays finite, and with acyclic
\* includes that means no document is entered while it is still being
\* assembled: two calls in progress never run the same acyclic document.
C15_AcyclicFinishes ==
    \A i \in DOMAIN stack : \A j \in DOMAIN stack :
        (i < j /\ stack[i].arc = stack[j].arc) => ~Acyclic(PathOf(stack[i].arc))

C17_Template ==
    [][/\ (ApplyCommand \/ LoopStep) =>
              /\ \A p \in Paths :
                     contains_key(prefab_map, p) => prefab_map'[p] = prefab_map[p]
              /\ \A e \in DOMAIN world \ {Current.entity} : world'[e] = world[e]
       /\ ~(ApplyCommand \/ LoopStep) =>
              \A e \in DOMAIN world : world'[e] = world[e]
      ]_vars

\* An entity assembled from "ordered" keeps its components after the path
\* was removed and loaded again (another document, now being assembled onto
\* a second entity).
C17_Witness ==
    /\ contains_key(prefab_map, "ordered")
    /\ \E e \in DOMAIN world : \E f \in DOMAIN world :
          /\ log[e] # <<>>
          /\ log[e][1].arc # prefab_map["ordered"].id
          /\ "T" \in DOMAIN world[e]
          /\ world[e]["T"].x = 9
          /\ world[e]["T"].y = 5
          /\ log[f] # <<>>
          /\ log[f][1].arc = prefab_map["ordered"].id
          /\ world[f] # world[e]

(***************************************************************************)
(* spawn_prefab as load followed by assembly (C18).                        *)
(***************************************************************************)
\* C18: spawn_prefab(path) does to the cache what load(path) does and
\* returns what it returns.  When the load fails the error is returned, and
\* no entity is created and no command queued or run; when it succeeds one
\* new entity without components is created and the steps of the returned
\* document, all of them and in order, are queued for that entity.
C18_SpawnIsLoadThenAssemble ==
    [][\A p \in {last'.path} \cap Paths :
          (last'.op = "spawn_prefab" /\ spawn_prefab(p)) =>
              LET l == try_load(prefab_map, next_arc, p) IN
              /\ prefab_map' = l.prefab_map
              /\ last'.tag = l.res.tag
              /\ last'.err = l.res.err
              /\ last'.read = l.read
              /\ stack' = stack
              /\ l.res.tag # "Ok" =>
                     /\ last'.tag = "Err"
                     /\ panicked' = "none"
                     /\ UNCHANGED <<world, queue, log>>
              /\ l.res.tag = "Ok" =>
                     /\ last'.arc = prefab_map'[p].id
                     /\ world' = Append(world, NoComponents)
                     /\ Len(queue') = Len(queue) + Len(prefab_map'[p].steps)
                     /\ \A i \in DOMAIN queue : queue'[i] = queue[i]
                     /\ \A i \in DOMAIN prefab_map'[p].steps :
                            /\ queue'[Len(queue) + i].entity = Len(world')
                            /\ queue'[Len(queue) + i].arc = prefab_map'[p].id
                            /\ queue'[Len(queue) + i].idx = i
                            /\ queue'[Len(queue) + i].step = prefab_map'[p].steps[i]
      ]_vars

\* A spawn_prefab whose load failed on an unregistered type, after one that
\* succeeded: the error was returned, the world and the queue hold the first
\* request's entity and commands alone.
C18_Witness ==
    /\ last.op = "spawn_prefab"
    /\ last.tag = "Err"
    /\ last.err = "UnregisteredPrefabComponent"
    /\ panicked = "none"
    /\ Len(world) = 1
    /\ queue # <<>>
    /\ \A i \in DOMAIN queue : queue[i].entity = 1

(***************************************************************************)
(* Roots and command calls of the parser (C19, C20).                       *)
(***************************************************************************)
\* The components of a source, in source order.
ComponentNodes(input) == SelectSeq(input, LAMBDA node : node.rule = "component")

\* The last of the children written under a name.
LastNamed(children, name) ==
    children[CHOOSE k \in DOMAIN children :
                /\ children[k].name = name
                /\ \A m \in DOMAIN children : children[m].name = name => m <= k]

\* The root holds the children by name: one entry for every name written,
\* with the value written last under it, and nothing else.
HeldByName(root, children) ==
    /\ \A k \in DOMAIN children : \E r \in DOMAIN root : root[r].name = children[k].name
    /\ \A r \in DOMAIN root :
          /\ \E k \in DOMAIN children : children[k].name = root[r].name
          /\ root[r].value = LastNamed(children, root[r].name).value
          /\ \A q \in DOMAIN root : root[q].name = root[r].name => q = r

\* C19: build_root makes the root by the shape of the registered type: for a
\* struct the fields are inserted by name, for a tuple struct or a tuple the
\* values are pushed in the order they are written and the names are not
\* kept.
C19_RootByShape ==
    parsed.res.tag = "Ok" =>
        LET nodes == ComponentNodes(parsed.input)
            components == parsed.res.val.components
        IN  /\ Len(components) = Len(nodes)
            /\ \A i \in DOMAIN nodes :
                  IF type_info_map[nodes[i].name].reflect_type = "Struct"
                  THEN HeldByName(components[i].root, nodes[i].children)
                  ELSE /\ Len(components[i].root) = Len(nodes[i].children)
                       /\ \A k \in DOMAIN nodes[i].children :
                             /\ components[i].root[k].value = nodes[i].children[k].value
                             /\ components[i].root[k].name = ""

\* A source with V(b: 1, a: 2, b: 3), a tuple struct, and T { y: 1, x: 2,
\* y: 3 }, a struct, has parsed: three values in order for V, x and the last
\* y for T.
C19_Witness ==
    /\ parsed.res.tag = "Ok"
    /\ \E i \in DOMAIN parsed.res.val.components :
          /\ parsed.res.val.components[i].name = "V"
          /\ Len(parsed.res.val.components[i].root) = 3
          /\ parsed.res.val.components[i].root[1].value = 1
          /\ parsed.res.val.components[i].root[3].value = 3
    /\ \E i \in DOMAIN parsed.res.val.components :
          /\ parsed.res.val.components[i].name = "T"
          /\ Len(parsed.res.val.components[i].root) = 2
          /\ parsed.res.val.components[i].root[1].name = "y"
          /\ parsed.res.val.components[i].root[1].value = 3

\* C20: a command call of the source parses to a command step and never to a
\* component step: the component steps are the components of the source, the
\* command steps the calls, in order, each with the called name as its key
\* and with properties that hold the fields written in the call by name, or
\* no properties when the call has no field.
C20_CommandCallStep ==
    parsed.res.tag = "Ok" =>
        LET calls == CommandCalls(parsed.input)
            procs == parsed.res.val.processors
            components == parsed.res.val.components
        IN  /\ Len(components) = Len(ComponentNodes(parsed.input))
            /\ \A i \in DOMAIN components :
                  /\ components[i].kind = "AddComponent"
                  /\ components[i].name = ComponentNodes(parsed.input)[i].name
            /\ Len(procs) = Len(calls)
            /\ \A i \in DOMAIN calls :
                  /\ procs[i].kind = "Processor"
                  /\ procs[i].name = calls[i].name
                  /\ HeldByName(procs[i].root, calls[i].children)
                  /\ procs[i].has_props <=> calls[i].children # <<>>

\* A source calling P without fields and Q with k: 1, j: 2, k: 3 has parsed:
\* P has no properties, Q has k = 3 and j = 2.
C20_Witness ==
    /\ parsed.res.tag = "Ok"
    /\ \E i \in DOMAIN parsed.res.val.processors :
          /\ parsed.res.val.processors[i].name = "P"
          /\ ~parsed.res.val.processors[i].has_props
          /\ parsed.res.val.processors[i].root = <<>>
    /\ \E i \in DOMAIN parsed.res.val.processors :
          /\ parsed.res.val.processors[i].name = "Q"
          /\ parsed.res.val.processors[i].has_props
          /\ Len(parsed.res.val.processors[i].root) = 2
          /\ parsed.res.val.processors[i].root[1].name = "k"
          /\ parsed.res.val.processors[i].root[1].value = 3


(***************************************************************************)
(* The value rules alone: the tests of parse.rs on value and field pairs.  *)
(***************************************************************************)
\* Fields written in a Vec3 literal.
MaxFields == 2

\* The fields a Vec3 literal is written from: floats for x, y, z and for a
\* name Vec3 does not have, and an int where a float belongs.
Vec3Fields ==
    {FieldOf(n, Literal("float", f)) : n \in {"x", "y", "z", "w"}, f \in {3, 10}}
        \cup {Field("y", 7)}

Vec3Sources == UNION {[1..n -> Vec3Fields] : n \in 0..MaxFields}

\* Code points: a, e acute, s caron (353 = 256 + 97), the euro sign.
Chars == {97, 233, 353, 8364}

Quote == 39

DoubleQuote == 34

\* The texts pest can match as Rule::char: one character between quotes.
CharSources == {<<Quote, ch, Quote>> : ch \in Chars}

\* The contents of a string literal: empty, one character, "hi", and one
\* that is itself a quoted text.
StringContents == {<<>>, <<97>>, <<104, 105>>, <<Quote, 97, Quote>>, <<32, 97, 32>>}

StringSources == {<<DoubleQuote>> \o content \o <<DoubleQuote>> : content \in StringContents}

ColorNames == DOMAIN ColorTable \cup {"PURPLE", "red", "WHITE"}

FieldNames == {"a", "b", "name"}

\* The result of a test: the pair it parsed, the result of the parse and
\* the value the test then looks at.
Tested(input, res, applied) == [input |-> <<input>>, res |-> res, applied |-> applied]

TestDone ==
    UNCHANGED <<type_info_map, processors, prefab_map, next_arc, fs_reads, parses, world,
                queue, stack, applying, log, nested_loads, panicked, last>>

\* Reflect::apply of a value type such as Vec3 or u8: the value is replaced.
apply_value(instance, value) == value

\* vec_parse: parse_value of a Vec3 literal, applied to Vec3::default().
vec_parse(fields) ==
    LET input == Vec3Literal(fields)
        dynamic == parse_value(input)
    IN  /\ Idle
        /\ parsed.input = <<>>
        /\ parsed' = Tested(input, dynamic,
                            IF dynamic.tag = "Ok" THEN apply_value(Vec3_default, dynamic.val)
                            ELSE Vec3_default)
        /\ TestDone

\* transform_parse: parse_component of Transform { translation: Vec3 {..} }
\* with Transform registered, applied to Transform::default().
transform_parse(fields) ==
    LET input == Comp("Transform", <<FieldOf("translation", Vec3Literal(fields))>>)
        comp == parse_component(input, TypeInfos({"Transform"}))
    IN  /\ Idle
        /\ parsed.input = <<>>
        /\ parsed' = Tested(input, comp,
                            IF comp.tag = "Ok"
                            THEN apply(DefaultInstance("Transform"), comp.val.root)
                            ELSE DefaultInstance("Transform"))
        /\ TestDone

\* char_parse: parse_value of a char literal, and the u8 read back as char.
char_parse(text) ==
    LET input == Literal("char", text)
        parsed_value == parse_value(input)
    IN  /\ Idle
        /\ parsed.input = <<>>
        /\ parsed' = Tested(input, parsed_value,
                            IF parsed_value.tag = "Ok" THEN parsed_value.val ELSE 0)
        /\ TestDone

\* color_parse: parse_value of Color::NAME, applied to Color::default().
color_parse(name) ==
    LET input == ColorLiteral(name)
        parsed_value == parse_value(input)
    IN  /\ Idle
        /\ parsed.input = <<>>
        /\ parsed' = Tested(input, parsed_value,
                            IF parsed_value.tag = "Ok"
                            THEN apply_value(Color_default, parsed_value.val)
                            ELSE Color_default)
        /\ TestDone

\* field_parse: parse_field of name: "text".
field_parse(name, text) ==
    LET input == FieldOf(name, Literal("string", text))
        field == parse_field(input)
    IN  /\ Idle
        /\ parsed.input = <<>>
        /\ parsed' = Tested(input, field, IF field.tag = "Ok" THEN field.val.value ELSE <<>>)
        /\ TestDone

NextValue ==
    \/ \E fields \in Vec3Sources : vec_parse(fields)
    \/ \E fields \in Vec3Sources : transform_parse(fields)
    \/ \E text \in CharSources : char_parse(text)
    \/ \E name \in ColorNames : color_parse(name)
    \/ \E name \in FieldNames, text \in StringSources : field_parse(name, text)

SpecValue == Init /\ [][NextValue]_vars

\* The pair a test parsed.
Tested_input == parsed.input[1]

\* The fields written in the Vec3 literal a test parsed, alone or as the
\* translation of a Transform.
Written ==
    IF Tested_input.rule = "vec3" THEN Tested_input.children
    ELSE Tested_input.children[1].children[1].children

\* The Vec3 the test looks at.
AppliedVec3 ==
    IF Tested_input.rule = "vec3" THEN parsed.applied ELSE parsed.applied.translation

DistinctNames(fields) ==
    \A i, j \in DOMAIN fields : fields[i].name = fields[j].name => i = j

\* C21: after a Vec3 literal that writes each field at most once has parsed,
\* alone or as the translation of a Transform, and was applied to a default
\* instance, each of x, y, z holds the value written for it wherever it was
\* written, or the default 0 when it was not written, and the Transform's
\* other field is still at its default.
C21_DefaultFill ==
    (/\ parsed.input # <<>>
     /\ Tested_input.rule \in {"vec3", "component"}
     /\ parsed.res.tag = "Ok"
     /\ DistinctNames(Written)) =>
        /\ \A n \in {"x", "y", "z"} :
              IF \E i \in DOMAIN Written : Written[i].name = n
              THEN \E i \in DOMAIN Written :
                      Written[i].name = n /\ AppliedVec3[n] = value_pair(Written[i]).value
              ELSE AppliedVec3[n] = Vec3_default[n]
        /\ Tested_input.rule = "component" =>
              parsed.applied.scale = DefaultInstance("Transform").scale

\* Transform { translation: Vec3 { z: 3, x: 10 } } has parsed and was
\* applied: the translation is x = 10, y = 0, z = 3.
C21_Witness ==
    /\ parsed.input = <<Comp("Transform", <<FieldOf("translation",
            Vec3Literal(<<FieldOf("z", Literal("float", 3)),
                          FieldOf("x", Literal("float", 10))>>))>>)>>
    /\ parsed.res.tag = "Ok"
    /\ parsed.applied.translation = [x |-> 10, y |-> 0, z |-> 3]


\* C22: after Color::NAME was parsed, the result is the constant of NAME when
\* NAME is one of the colours the parser knows, and otherwise the error
\* UnhandledValueRule naming it: a name outside the table never gives a
\* colour, the default colour included.
C22_ColorsClosed ==
    (parsed.input # <<>> /\ Tested_input.rule = "color") =>
        IF Tested_input.name \in DOMAIN ColorTable
        THEN /\ parsed.res = Ok(ColorTable[Tested_input.name])
             /\ parsed.applied = ColorTable[Tested_input.name]
        ELSE /\ parsed.res = Err("UnhandledValueRule", Tested_input.name)
             /\ parsed.applied = Color_default

\* Color::PURPLE, which is not in the table, was parsed and failed.
C22_Witness ==
    /\ parsed.input = <<ColorLiteral("PURPLE")>>
    /\ parsed.res.tag = "Err"
    /\ parsed.res.err = "UnhandledValueRule"

\* C23: after a char literal 'c' was parsed, the result is the byte c mod 256,
\* which read back as a char is c when c fits eight bits.
C23_CharByte ==
    (parsed.input # <<>> /\ Tested_input.rule = "char") =>
        LET c == Tested_input.value[2] IN
        /\ parsed.res = Ok(c % 256)
        /\ c < 256 => parsed.applied = c
        /\ parsed.applied \in 0..255

\* The char literal of code point 353 was parsed to the byte 97.
C23_Witness ==
    /\ parsed.input = <<Literal("char", <<Quote, 353, Quote>>)>>
    /\ parsed.res = Ok(97)

\* C24: after the field name: "text" was parsed, the result is a field with
\* that name whose value is the text between the two surrounding quotes,
\* whatever the text holds.
C24_StringField ==
    (parsed.input # <<>> /\ Tested_input.rule = "field") =>
        LET text == value_pair(Tested_input).value IN
        /\ parsed.res.tag = "Ok"
        /\ parsed.res.val.name = Tested_input.name
        /\ <<DoubleQuote>> \o parsed.res.val.value \o <<DoubleQuote>> = text
        /\ parsed.applied = parsed.res.val.value

\* The field name: "" was parsed: its value is the empty text.
C24_Witness ==
    /\ parsed.input = <<FieldOf("name", Literal("string", <<DoubleQuote, DoubleQuote>>))>>
    /\ parsed.res.tag = "Ok"
    /\ parsed.res.val.value = <<>>


(***************************************************************************)
(* Types registered without #[reflect(Component)] (C25).                   *)
(***************************************************************************)
ReflectPaths == {"bad", "ordered"}

\* Registration of U with and without the capability, and insert_prefab.
NextReflect ==
    \/ \E type_id \in {"U", "other::U"} : register_type(type_id)
    \/ \E p \in ReflectPaths : insert_prefab(p)
    \/ ApplyCommand

SpecReflect == Init /\ [][NextReflect]_vars

PropertyPaths == {"noname", "intname", "cmd"}

NextProperties ==
    \/ \E p \in PropertyPaths : insert_prefab(p)
    \/ ApplyCommand

SpecProperties == Init /\ [][NextProperties]_vars

\* C26: when the command LoadPrefab is run on a step without a `name`
\* property that is a string, the step fails: assembly stops there.
C26_MissingNameFails ==
    [][(ApplyCommand
        /\ Current.pipe = 2
        /\ command_name(Current.step) = LoadPrefabKey
        /\ LoadPrefabKey \in DOMAIN processors
        /\ name_property(Current.step) = "") =>
            panicked' # "none"
      ]_vars

\* What the code does: the step without `name` runs to its end with the world
\* as before, and the step after it runs later on.
C26_SkippedSilently ==
    /\ panicked = "none"
    /\ last.op = "insert_prefab"
    /\ last.path \in {"noname", "intname"}
    /\ Len(world) = 1
    /\ DOMAIN world[1] = {"A", "B"}
    /\ queue = <<>>


(***************************************************************************)
(* What a load leaves behind (C27, C28).                                   *)
(***************************************************************************)
\* C27: a load that fails leaves the cache as it was, without an entry for
\* the path; a load of a path that was read before and is not cached reads
\* the file again, and succeeds when the types the file uses are registered
\* by then.
C27_FailureNotCached ==
    [][\A p \in {last'.path} \cap SetupPaths :
          load(p) =>
             /\ last'.tag # "Ok" =>
                   /\ prefab_map' = prefab_map
                   /\ ~contains_key(prefab_map', p)
             /\ (fs_reads[p] > 0 /\ ~contains_key(prefab_map, p)) =>
                   /\ last'.read
                   /\ fs_reads'[p] = fs_reads[p] + 1
                   /\ TypesIn(Files(p)) \subseteq DOMAIN type_info_map =>
                         /\ last'.tag = "Ok"
                         /\ contains_key(prefab_map', p)
      ]_vars

\* "bad" (A then U) was loaded before U was registered and failed, U was
\* registered, and the second load read the file again and succeeded.
C27_Witness ==
    /\ last.op = "load"
    /\ last.path = "bad"
    /\ last.tag = "Ok"
    /\ last.read
    /\ fs_reads["bad"] = 2
    /\ contains_key(prefab_map, "bad")

\* C28: a load of p leaves the registered types, the registered commands
\* and the cache entry of every other path as they were; the entry of p
\* changes only from absent to present.
C28_LoadFrame ==
    [][\A p \in {last'.path} \cap SetupPaths :
          load(p) =>
             /\ type_info_map' = type_info_map
             /\ processors' = processors
             /\ \A q \in Paths \ {p} : prefab_map'[q] = prefab_map[q]
             /\ prefab_map'[p] # prefab_map[p] =>
                   /\ ~contains_key(prefab_map, p)
                   /\ contains_key(prefab_map', p)
                   /\ last'.tag = "Ok"
      ]_vars

\* "bad" was loaded from its file while "ordered" was cached: both are
\* cached after the load, "ordered" with the document it had.
C28_Witness ==
    /\ last.op = "load"
    /\ last.path = "bad"
    /\ last.tag = "Ok"
    /\ last.read
    /\ contains_key(prefab_map, "ordered")
    /\ prefab_map["ordered"].id < prefab_map["bad"].id


(***************************************************************************)
(* Nested loads and the cache (C29).                                       *)
(***************************************************************************)
NestedPaths == {"mid", "leaf"}

\* Assemblies of mid, which loads leaf, of top, which loads mid, and of leaf
\* itself, with leaf removed from the cache in between.
NextNested ==
    \/ \E p \in NestedPaths : spawn_prefab(p)
    \/ \E p \in {"mid", "top"} : insert_prefab(p)
    \/ Remove("leaf")
    \/ ApplyCommand
    \/ LoopStep
    \/ LoopReturn

SpecNested == Init /\ [][NextNested]_vars

\* The path can be loaded: it is cached, or its file is there and parses with
\* the types registered.
Loadable(path) == try_load(prefab_map, next_arc, path).res.tag = "Ok"

\* C29: after a nested-load step for a path that can be loaded, the path is
\* cached and the step runs the cached document; when the path is cached
\* already, by an earlier nested load or by a load or spawn of the path
\* itself, the step reads and parses nothing; and a spawn of a cached path
\* reads nothing either.  So between two removals of a path its file is read
\* at most once.
C29_NestedThroughCache ==
    [][/\ ((ApplyCommand \/ LoopStep)
           /\ Current.step.kind = "LoadPrefab"
           /\ Loadable(Current.step.name)) =>
              /\ contains_key(prefab_map', Current.step.name)
              /\ stack' # <<>>
              /\ Head(stack').arc = prefab_map'[Current.step.name].id
              /\ contains_key(prefab_map, Current.step.name) =>
                    /\ prefab_map' = prefab_map
                    /\ fs_reads' = fs_reads
                    /\ parses' = parses
       /\ \A p \in {last'.path} \cap NestedPaths :
             (spawn_prefab(p) /\ contains_key(prefab_map, p)) =>
                 /\ ~last'.read
                 /\ last'.arc = prefab_map[p].id
                 /\ fs_reads' = fs_reads
       /\ \A p \in Paths : fs_reads'[p] <= 1
      ]_vars

\* Two assemblies have reached the nested load of leaf and run it, and
\* leaf's file was read once.
C29_SharedOnceResolved ==
    /\ nested_loads["leaf"] = 2
    /\ fs_reads["leaf"] = 1
    /\ contains_key(prefab_map, "leaf")
    /\ panicked = "none"


(***************************************************************************)
(* insert_prefab and the caller's own entity commands (C30).               *)
(***************************************************************************)
\* Components the caller inserts on one entity after insert_prefab.
MaxInserts == 1

QueuePaths == {"ordered", "leaf"}

\* The component the caller inserts: T { x: 1, y: 1 }.
CallerComponent ==
    Step("Insert", "T", <<ReflectField("x", 1, <<>>), ReflectField("y", 1, <<>>)>>, FALSE)

\* The Insert commands of the caller for the entity, queued or written.
Inserts(entity) ==
    Cardinality({i \in DOMAIN queue : queue[i].pipe = 0 /\ queue[i].entity = entity})
        + Cardinality({i \in DOMAIN log[entity] :
                          log[entity][i].ev = "end" /\ log[entity][i].kind = "Insert"})

\* commands.entity(e).insert(component), as setup of sword.rs chains it
\* after insert_prefab: one command at the end of the queue.
EntityCommands_insert(entity, component) ==
    /\ Idle
    /\ entity \in DOMAIN world
    /\ Inserts(entity) < MaxInserts
    /\ queue' = Append(queue, Command(0, entity, 0, 0, component))
    /\ last' = Call("insert", component.name, Ok(NoArc), FALSE)
    /\ UNCHANGED <<type_info_map, processors, prefab_map, next_arc, fs_reads, parses, world,
                   stack, applying, log, nested_loads, panicked, parsed>>

NextQueue ==
    \/ \E p \in QueuePaths : insert_prefab(p)
    \/ \E e \in 1..MaxEntities : EntityCommands_insert(e, CallerComponent)
    \/ ApplyCommand

SpecQueue == Init /\ [][NextQueue]_vars

\* C30: insert_prefab writes nothing to the entity: it puts one command per
\* step, in step order, behind the commands already queued; the queue is
\* written from its head, so no command of a prefab queued earlier is left
\* when a step of a prefab queued later is written; and once everything is
\* written, an entity the caller inserted T on after insert_prefab holds the
\* caller's T, whatever the prefab set.
C30_QueuedBehind ==
    [][/\ \A p \in {last'.path} \cap QueuePaths :
             (insert_prefab(p) /\ last'.tag = "Ok") =>
                 /\ queue' = queue \o Queued(2, NewEntity, prefab_map'[p])
                 /\ Len(queue') = Len(queue) + Len(prefab_map'[p].steps)
                 /\ world' = Append(world, NoComponents)
       /\ ApplyCommand =>
             /\ queue' = Tail(queue)
             /\ Head(queue).pipe = 2 =>
                   \A i \in DOMAIN queue' :
                       queue'[i].pipe = 2 => queue'[i].entity >= Head(queue).entity
       /\ (queue' = <<>> /\ stack' = <<>> /\ panicked' = "none") =>
             \A e \in DOMAIN world' :
                 (\E i \in DOMAIN log'[e] : log'[e][i].kind = "Insert") =>
                     /\ "T" \in DOMAIN world'[e]
                     /\ world'[e]["T"] = apply(DefaultInstance("T"), CallerComponent.root)
      ]_vars

\* "ordered", which sets T to x = 9, y = 5, was inserted on entity 1 and the
\* caller inserted T { x: 1, y: 1 } after it; all commands are written, the
\* prefab's steps first: the entity holds the caller's T.
C30_Witness ==
    /\ queue = <<>>
    /\ panicked = "none"
    /\ Len(world) >= 1
    /\ Len(log[1]) = 6
    /\ log[1][1].name = "T" /\ log[1][1].kind = "AddComponent"
    /\ log[1][4].kind = "AddComponent" /\ log[1][4].ev = "end"
    /\ log[1][6].kind = "Insert"
    /\ world[1]["T"] = [x |-> 1, y |-> 1]

====
